---- MODULE Spec2Model ----
(***************************************************************************)
(* rublo: a server of named scalable Bloom filters.                        *)
(*                                                                         *)
(* The module models                                                       *)
(*   - BloomFilter and ScalableBloomFilter            (src/src/filter.rs), *)
(*   - the filter registry, the request dispatcher and the two             *)
(*     persistence workers                            (src/src/server.rs). *)
(*                                                                         *)
(* Nine specifications are given.  Spec is the server with every request   *)
(* and every worker pass as one step: requests, the full dump, the cold    *)
(* sweep and the clock.  TaskSpec is the server as its tasks run it: two   *)
(* connection tasks and the two workers, the registry Mutex, a step per    *)
(* await.  FilterSpec is one ScalableBloomFilter driven directly through   *)
(* set / check / clear, for every hash family over the modelled keys.      *)
(* GrowthSpec is the (5, 0.01, small) filter fed distinct items.  DumpSpec  *)
(* is the full dump over a registry of several filters, SizingSpec the     *)
(* construction of a primitive filter from its parameters, LoadedSpec the  *)
(* sets on a filter decoded from a file of the data directory, AcceptSpec  *)
(* the accept loop, TierSpec the server while its disk works.              *)
(*                                                                         *)
(* Conventions.  A panic of the Rust code is an outcome of its own         *)
(* ("Panic"): the task unwinds, the registry guard is released and the     *)
(* mutations made before the panic stay.  Probabilities (f64) are kept in  *)
(* units of 1/10000, logarithms in units of 1/1000000.  Timestamps are in  *)
(* seconds, as compared by the code (`.timestamp()`).                      *)
(***************************************************************************)
EXTENDS Integers, Sequences, FiniteSets, TLC

VARIABLES
    filters,        \* FilterDatabase.filters : name -> ScalableBloomFilter
    cold_filters,   \* FilterDatabase.cold_filters : set of names
    disk,           \* the data directory: name -> contents of <name>.rbl
    now,            \* Utc::now(), in seconds
    hash,           \* the hash family gxhash32 : (bytes, seed) -> value
    request,        \* the operation handled by the last step
    response,       \* what it answered
    sbf,            \* FilterSpec: the ScalableBloomFilter under study
    inserted,       \* the keys set with success since the last clear (FilterSpec,
                    \* GrowthSpec: keys; TaskSpec: <<name, key>> pairs)
    task,           \* TaskSpec: where each tokio task stands
    mutex           \* TaskSpec: TRUE while the registry Mutex is locked

vars == <<filters, cold_filters, disk, now, hash, request, response, sbf, inserted,
          task, mutex>>

----------------------------------------------------------------------------
(* Bounds of the model *)

\* number of clock steps
MaxTicks == 2
\* hash values range over 0 .. HashSpace-1 (in the code: u32)
HashSpace == 4
\* hits + miss of one filter never grows beyond this
MaxChecks == 3
\* number of distinct items fed in the growth scenario
MaxItems == 10
\* the sizing formulas are applied to every item count up to this one
MaxSizing == 30
\* number of connections the accept loop accepts
MaxAccepts == 3

Names == {"a"}
Keys == {"x", "y"}
\* capacities a create request may carry
Capacities == {0, 1}
\* false positive probabilities a create request may carry, in 1/10000
Fpps == {7000}
\* the parameters FilterSpec constructs its filter with
FilterCapacities == {0, 1, 8}
FilterFpps == {5000, 7000, 20000}

----------------------------------------------------------------------------
(* Program constants *)

COLD_FILTER_TIMEOUT == 3600
BACKOFF == 128
SmallScaleSize == 2
LargeScaleSize == 4
\* FALSE_POSITIVE_PROBABILITY_RATIO = 0.9, in tenths
FALSE_POSITIVE_PROBABILITY_RATIO == 9
\* f64::consts::LN_2, in 1/1000000
LN_2 == 693147
\* LN_2 * LN_2, in 1/1000000
LN_2_SQUARED == 480453

\* the clock advances in steps of the cold timeout, so that idle times
\* below it (0), equal to it and above it all occur
TickStep == COLD_FILTER_TIMEOUT

----------------------------------------------------------------------------
(* f64 arithmetic of the sizing formulas *)

\* fpp.ln(), in 1/1000000, for the probabilities (in 1/10000) that occur
ln(p) ==
    CASE p = 10    -> -6907755
      [] p = 90    -> -4710531
      [] p = 100   -> -4605170
      [] p = 450   -> -3101093
      [] p = 500   -> -2995732
      [] p = 4500  -> -798508
      [] p = 4592  -> -778269
      [] p = 5000  -> -693147
      [] p = 5103  -> -672756
      [] p = 5670  -> -567396
      [] p = 6300  -> -462035
      [] p = 7000  -> -356675
      [] p = 10000 -> 0
      [] p = 18000 -> 587787
      [] p = 20000 -> 693147

\* self.fpp * FALSE_POSITIVE_PROBABILITY_RATIO
TightenFpp(fpp) == (fpp * FALSE_POSITIVE_PROBABILITY_RATIO) \div 10

\* get_bitmap_size as it would be with floor in the place of ceil
get_bitmap_size_floor(items_count, fpp) ==
    LET l == -ln(fpp)
    IN  IF l <= 0 THEN 0
        ELSE items_count * (l \div LN_2_SQUARED)
                + (items_count * (l % LN_2_SQUARED)) \div LN_2_SQUARED

\* m = ceil(-(n * ln p) / (ln 2)^2) as usize; the cast saturates at 0.
\* The quotient is taken in two parts to keep the products in range.
get_bitmap_size(items_count, fpp) ==
    LET l == -ln(fpp)
    IN  IF l <= 0 THEN 0
        ELSE items_count * (l \div LN_2_SQUARED)
                + (items_count * (l % LN_2_SQUARED) + LN_2_SQUARED - 1) \div LN_2_SQUARED

\* k = ceil((m / n) * ln 2) as u32; BloomFilter::new calls it after its
\* assert, so items_count > 0.  m / n is taken as quotient and remainder
\* to keep the products in range.
get_optimal_hash_count(bitmap_size, items_count) ==
    LET q    == bitmap_size \div items_count
        r    == bitmap_size % items_count
        y    == q * LN_2 + (r * LN_2) \div items_count
        frac == (r * LN_2) % items_count
    IN  IF y % 1000000 = 0 /\ frac = 0 THEN y \div 1000000 ELSE y \div 1000000 + 1

----------------------------------------------------------------------------
(* BloomFilter *)

\* gxhash::gxhash32(bytes, i as i64)
gxhash32(bytes, seed) == hash[<<bytes, seed>>]

\* bitvec![0u8; bitmap_size] : positions 0 .. bitmap_size-1, all zero
ZeroBitmap(bitmap_size) == [i \in 0..(bitmap_size - 1) |-> FALSE]

\* BloomFilter::new; the assert panics on capacity == 0 or fpp <= 0
BloomFilter_new(capacity, fpp) ==
    IF ~(capacity > 0 /\ fpp > 0)
    THEN [panic |-> TRUE]
    ELSE LET bitmap_size == get_bitmap_size(capacity, fpp)
             hash_count  == get_optimal_hash_count(bitmap_size, capacity)
         IN  [panic |-> FALSE,
              bf |-> [capacity   |-> bitmap_size,
                      size       |-> 0,
                      bitmap     |-> ZeroBitmap(bitmap_size),
                      hash_count |-> hash_count,
                      hits       |-> 0,
                      miss       |-> 0]]

\* set_loop as it would be if every probed position were judged by the
\* bitmap as it was when set was called
set_loop_unordered(bf, bytes, i, allbits) ==
    LET probed == {gxhash32(bytes, j) % bf.capacity : j \in i..(bf.hash_count - 1)}
    IN  IF i >= bf.hash_count
        THEN [panic |-> FALSE, bitmap |-> bf.bitmap, allbits |-> allbits]
        ELSE IF bf.capacity = 0 \/ ~(probed \subseteq DOMAIN bf.bitmap)
        THEN [panic |-> TRUE, bitmap |-> bf.bitmap, allbits |-> allbits]
        ELSE [panic   |-> FALSE,
              bitmap  |-> [h \in DOMAIN bf.bitmap |-> bf.bitmap[h] \/ h \in probed],
              allbits |-> allbits /\ \A h \in probed : ~bf.bitmap[h]]

\* set_loop as it would be if the loop left at the first position found set
RECURSIVE set_loop_break(_, _, _, _)
set_loop_break(bf, bytes, i, allbits) ==
    IF i >= bf.hash_count
    THEN [panic |-> FALSE, bitmap |-> bf.bitmap, allbits |-> allbits]
    ELSE IF bf.capacity = 0
    THEN [panic |-> TRUE, bitmap |-> bf.bitmap, allbits |-> allbits]
    ELSE LET h == gxhash32(bytes, i) % bf.capacity
         IN  IF h \notin DOMAIN bf.bitmap
             THEN [panic |-> TRUE, bitmap |-> bf.bitmap, allbits |-> allbits]
             ELSE IF bf.bitmap[h]
             THEN [panic |-> FALSE, bitmap |-> bf.bitmap, allbits |-> FALSE]
             ELSE set_loop_break([bf EXCEPT !.bitmap[h] = TRUE], bytes, i + 1, allbits)

\* The loop of BloomFilter::set from iteration i on.  Indexing the bitmap
\* out of its bounds panics.
RECURSIVE set_loop(_, _, _, _)
set_loop(bf, bytes, i, allbits) ==
    IF i >= bf.hash_count
    THEN [panic |-> FALSE, bitmap |-> bf.bitmap, allbits |-> allbits]
    ELSE IF bf.capacity = 0
    THEN [panic |-> TRUE, bitmap |-> bf.bitmap, allbits |-> allbits]
    ELSE LET h == gxhash32(bytes, i) % bf.capacity
         IN  IF h \notin DOMAIN bf.bitmap
             THEN [panic |-> TRUE, bitmap |-> bf.bitmap, allbits |-> allbits]
             ELSE set_loop([bf EXCEPT !.bitmap[h] = TRUE], bytes, i + 1,
                           allbits /\ ~bf.bitmap[h])

\* BloomFilter::set : status is "Ok" (with value), "Err" (full) or "Panic"
BloomFilter_set(bf, bytes) ==
    IF bf.size = bf.capacity
    THEN [status |-> "Err", value |-> FALSE, bf |-> bf]
    ELSE LET r == set_loop(bf, bytes, 0, TRUE)
         IN  IF r.panic
             THEN [status |-> "Panic", value |-> FALSE,
                   bf |-> [bf EXCEPT !.bitmap = r.bitmap]]
             ELSE [status |-> "Ok", value |-> ~r.allbits,
                   bf |-> [bf EXCEPT !.bitmap = r.bitmap,
                                     !.size = IF r.allbits THEN @ + 1 ELSE @]]

\* The loop of BloomFilter::check from iteration i on: "miss" at the first
\* zero bit, "hit" when all hash_count positions are set, "panic" when a
\* position is out of the bitmap's bounds.
RECURSIVE check_loop(_, _, _)
check_loop(bf, bytes, i) ==
    IF i >= bf.hash_count THEN "hit"
    ELSE IF bf.capacity = 0 THEN "panic"
    ELSE LET h == gxhash32(bytes, i) % bf.capacity
         IN  IF h \notin DOMAIN bf.bitmap THEN "panic"
             ELSE IF bf.bitmap[h] = FALSE THEN "miss"
             ELSE check_loop(bf, bytes, i + 1)

\* BloomFilter::check
BloomFilter_check(bf, bytes) ==
    LET r == check_loop(bf, bytes, 0)
    IN  CASE r = "panic" -> [panic |-> TRUE,  result |-> FALSE, bf |-> bf]
          [] r = "miss"  -> [panic |-> FALSE, result |-> FALSE,
                             bf |-> [bf EXCEPT !.miss = @ + 1]]
          [] r = "hit"   -> [panic |-> FALSE, result |-> TRUE,
                             bf |-> [bf EXCEPT !.hits = @ + 1]]

\* BloomFilter::clear : BitVec::clear empties the vector (length 0)
BloomFilter_clear(bf) == [bf EXCEPT !.bitmap = ZeroBitmap(0), !.size = 0]

----------------------------------------------------------------------------
(* ScalableBloomFilter *)

ScalableBloomFilter_new(name, initial_capacity, fpp, scale_factor, t) ==
    [name             |-> name,
     initial_capacity |-> initial_capacity,
     filters          |-> << >>,
     fpp              |-> fpp,
     scale_factor     |-> scale_factor,
     creation_time    |-> t,
     last_access_time |-> t]

RECURSIVE SumOver(_, _, _)
\* fold(0, |acc, x| acc + f(x)) over stages 1..n
SumOver(stages, n, field) ==
    IF n = 0 THEN 0 ELSE SumOver(stages, n - 1, field) + stages[n][field]

filter_count(f) == Len(f.filters)

\* ScalableBloomFilter::capacity as it would be without the branch on an
\* empty stage list
sbf_capacity_sum(f) == SumOver(f.filters, Len(f.filters), "capacity")

\* ScalableBloomFilter::capacity
sbf_capacity(f) ==
    IF f.filters = << >> THEN f.initial_capacity
    ELSE SumOver(f.filters, Len(f.filters), "capacity")

sbf_size(f) == SumOver(f.filters, Len(f.filters), "size")

sbf_hits(f) == SumOver(f.filters, Len(f.filters), "hits")

sbf_miss(f) == SumOver(f.filters, Len(f.filters), "miss")

\* The loop of ScalableBloomFilter::check over stages j, j-1, .., 1
\* (`iter_mut().rev()`), returning at the first stage that reports a hit.
RECURSIVE check_stages(_, _, _)
check_stages(stages, j, bytes) ==
    IF j = 0 THEN [panic |-> FALSE, result |-> FALSE, stages |-> stages]
    ELSE LET r  == BloomFilter_check(stages[j], bytes)
             st == [stages EXCEPT ![j] = r.bf]
         IN  IF r.panic THEN [panic |-> TRUE, result |-> FALSE, stages |-> st]
             ELSE IF r.result THEN [panic |-> FALSE, result |-> TRUE, stages |-> st]
             ELSE check_stages(st, j - 1, bytes)

\* ScalableBloomFilter::check as it would be without the update of
\* last_access_time
ScalableBloomFilter_check_no_touch(f, bytes, t) ==
    LET r == check_stages(f.filters, Len(f.filters), bytes)
    IN  [panic  |-> r.panic,
         result |-> r.result,
         sbf    |-> [f EXCEPT !.filters = r.stages]]

\* ScalableBloomFilter::check at time t
ScalableBloomFilter_check(f, bytes, t) ==
    LET r == check_stages(f.filters, Len(f.filters), bytes)
    IN  [panic  |-> r.panic,
         result |-> r.result,
         sbf    |-> [f EXCEPT !.last_access_time = t, !.filters = r.stages]]

\* ScalableBloomFilter::add_filter
add_filter(f, capacity, fpp) ==
    LET b == BloomFilter_new(capacity, fpp)
    IN  IF b.panic THEN [panic |-> TRUE, sbf |-> f]
        ELSE [panic |-> FALSE, sbf |-> [f EXCEPT !.filters = Append(@, b.bf)]]

\* NeedsNewStage as it would be if only an empty stage list made set append
NeedsNewStage_empty_only(f) == f.filters = << >>

\* does ScalableBloomFilter::set append a stage before it inserts?
NeedsNewStage(f) ==
    \/ f.filters = << >>
    \/ LET last == f.filters[Len(f.filters)] IN last.size = last.capacity

\* the part of ScalableBloomFilter::set after the membership check
set_after_check(f, bytes) ==
    LET grown == IF NeedsNewStage(f)
                 THEN add_filter(f, f.initial_capacity * f.scale_factor,
                                 TightenFpp(f.fpp))
                 ELSE [panic |-> FALSE, sbf |-> f]
    IN  IF grown.panic
        THEN [status |-> "Panic", value |-> FALSE, sbf |-> grown.sbf]
        ELSE LET g == grown.sbf
                 n == Len(g.filters)
                 r == BloomFilter_set(g.filters[n], bytes)
             IN  [status |-> r.status, value |-> r.value,
                  sbf |-> [g EXCEPT !.filters[n] = r.bf]]

\* ScalableBloomFilter::set as it would be without the early return on a hit
ScalableBloomFilter_set_always(f, bytes, t) ==
    LET c == ScalableBloomFilter_check([f EXCEPT !.last_access_time = t], bytes, t)
    IN  IF c.panic THEN [status |-> "Panic", value |-> FALSE, sbf |-> c.sbf]
        ELSE set_after_check(c.sbf, bytes)

\* ScalableBloomFilter::set at time t
ScalableBloomFilter_set(f, bytes, t) ==
    LET c == ScalableBloomFilter_check([f EXCEPT !.last_access_time = t], bytes, t)
    IN  IF c.panic THEN [status |-> "Panic", value |-> FALSE, sbf |-> c.sbf]
        ELSE IF c.result THEN [status |-> "Ok", value |-> TRUE, sbf |-> c.sbf]
        ELSE set_after_check(c.sbf, bytes)

\* ScalableBloomFilter::clear at time t
ScalableBloomFilter_clear(f, t) ==
    [f EXCEPT !.filters = [j \in 1..Len(f.filters) |-> BloomFilter_clear(f.filters[j])],
              !.last_access_time = t]

----------------------------------------------------------------------------
(* Accessors used by the info and list responses *)

\* BloomFilter::byte_space
byte_space(bf) == bf.capacity \div 8

RECURSIVE SumByteSpace(_, _)
SumByteSpace(stages, n) ==
    IF n = 0 THEN 0 ELSE SumByteSpace(stages, n - 1) + byte_space(stages[n])

\* ScalableBloomFilter::byte_space
sbf_byte_space(f) ==
    IF f.filters = << >> THEN f.initial_capacity \div 8
    ELSE SumByteSpace(f.filters, Len(f.filters))

RECURSIVE MaxHashCount(_, _)
MaxHashCount(stages, n) ==
    IF n = 0 THEN 0
    ELSE LET rest == MaxHashCount(stages, n - 1)
         IN  IF stages[n].hash_count > rest THEN stages[n].hash_count ELSE rest

\* ScalableBloomFilter::hash_count : the maximum over the stages, 0 if none
sbf_hash_count(f) == MaxHashCount(f.filters, Len(f.filters))

----------------------------------------------------------------------------
(* Persistence: bincode writes the fields of a struct in declaration order *)

serialize_bf(bf) ==
    <<bf.capacity, bf.size, bf.bitmap, bf.hash_count, bf.hits, bf.miss>>

deserialize_bf(blob) ==
    [capacity   |-> blob[1],
     size       |-> blob[2],
     bitmap     |-> blob[3],
     hash_count |-> blob[4],
     hits       |-> blob[5],
     miss       |-> blob[6]]

serialize(f) ==
    <<f.name, f.initial_capacity,
      [j \in 1..Len(f.filters) |-> serialize_bf(f.filters[j])],
      f.fpp, f.scale_factor, f.creation_time, f.last_access_time>>

deserialize(blob) ==
    [name             |-> blob[1],
     initial_capacity |-> blob[2],
     filters          |-> [j \in 1..Len(blob[3]) |-> deserialize_bf(blob[3][j])],
     fpp              |-> blob[4],
     scale_factor     |-> blob[5],
     creation_time    |-> blob[6],
     last_access_time |-> blob[7]]

\* HashMap::insert
MapInsert(map, key, value) ==
    [k \in DOMAIN map \cup {key} |-> IF k = key THEN value ELSE map[k]]

\* HashMap::remove / retain
MapRestrict(map, keys) == [k \in DOMAIN map \cap keys |-> map[k]]

EmptyMap == [k \in {} |-> 0]

\* ScalableBloomFilter::to_file : fs::write to rublo/<name>.rbl
to_file(d, f) == MapInsert(d, f.name, serialize(f))

\* ScalableBloomFilter::from_file : fs::read, then bincode::deserialize; an
\* I/O error (ioOk = FALSE) or a missing file gives Err
from_file(d, name, ioOk) ==
    IF ioOk /\ name \in DOMAIN d
    THEN [ok |-> TRUE, f |-> deserialize(d[name])]
    ELSE [ok |-> FALSE]

----------------------------------------------------------------------------
(* Responses *)

Done == [kind |-> "Done"]
True == [kind |-> "True"]
False == [kind |-> "False"]
Error(msg) == [kind |-> "Error", msg |-> msg]
\* the handler panicked: the connection task ends and nothing is answered
Panicked == [kind |-> "Panic"]

\* {:?} of the error a failed read or write returns; its text depends on the
\* platform
io_error == "<io error>"

\* {:?} of the error BloomFilter::set returns when the filter is full
full_error == "BloomFilterError(\"Full capacity reached\")"

NoSuchFilter(name) == Error("no scalable filter named " \o name)

\* get_filter_info
get_filter_info(f) ==
    [kind             |-> "Info",
     name             |-> f.name,
     capacity         |-> sbf_capacity(f),
     size             |-> sbf_size(f),
     space            |-> sbf_byte_space(f),
     filters          |-> filter_count(f),
     hash_count       |-> sbf_hash_count(f),
     hits             |-> sbf_hits(f),
     miss             |-> sbf_miss(f),
     creation_time    |-> <<"rfc3339", f.creation_time>>,
     last_access_time |-> <<"rfc3339", f.last_access_time>>]

----------------------------------------------------------------------------
(* The text protocol: a line is the sequence of its tokens (split(" ")) *)

DEFAULT_CAPACITY == "50000"
DEFAULT_FPP == "0.05"

\* the tokens str::parse::<usize> accepts, with their values
usize_literals == ("0" :> 0 @@ "1" :> 1 @@ "5" :> 5 @@ "50000" :> 50000)

\* the tokens str::parse::<f64> accepts, in 1/10000: the decimals and every
\* integer literal
f64_literals ==
    ("0.01" :> 100 @@ "0.05" :> 500 @@ "0.5" :> 5000 @@ "0.7" :> 7000)
    @@ [s \in DOMAIN usize_literals |-> usize_literals[s] * 10000]

\* s.parse::<usize>()
parse_usize(s) ==
    IF s \in DOMAIN usize_literals
    THEN [ok |-> TRUE, value |-> usize_literals[s]] ELSE [ok |-> FALSE]

\* s.parse::<f64>()
parse_f64(s) ==
    IF s \in DOMAIN f64_literals
    THEN [ok |-> TRUE, value |-> f64_literals[s]] ELSE [ok |-> FALSE]

ParserError(message) == [ok |-> FALSE, message |-> message]

\* impl Display for ParserError
ParserError_fmt(e) == "parser error: " \o e.message

\* the branches of Request::parse that take one argument
parse_named(line, op, missing) ==
    IF Len(line) < 2 THEN ParserError(missing)
    ELSE [ok |-> TRUE, req |-> [op |-> op, name |-> line[2]]]

\* the branches of Request::parse that take a name and a key
parse_keyed(line, op) ==
    IF Len(line) < 2 THEN ParserError("missing name")
    ELSE IF Len(line) < 3 THEN ParserError("missing key")
    ELSE [ok |-> TRUE, req |-> [op |-> op, name |-> line[2], key |-> line[3]]]

\* the create branch of Request::parse
parse_create(line) ==
    IF Len(line) < 2 THEN ParserError("missing name")
    ELSE LET capacity == parse_usize(IF Len(line) >= 3 THEN line[3] ELSE DEFAULT_CAPACITY)
             fpp      == parse_f64(IF Len(line) >= 4 THEN line[4] ELSE DEFAULT_FPP)
         IN  IF ~capacity.ok THEN ParserError("capacity must be an i64 value")
             ELSE IF ~fpp.ok
             THEN ParserError("false-positive probability must be a f64 value")
             ELSE [ok |-> TRUE,
                   req |-> [op |-> "create", name |-> line[2],
                            capacity |-> capacity.value, fpp |-> fpp.value]]

\* Request::parse as it would be if an unknown command were taken for list
Request_parse_lenient(line) ==
    IF Len(line) = 0 THEN ParserError("missing command")
    ELSE CASE line[1] = "create"  -> parse_create(line)
           [] line[1] = "set"     -> parse_keyed(line, "set")
           [] line[1] = "check"   -> parse_keyed(line, "check")
           [] line[1] = "info"    -> parse_named(line, "info", "missing filter name")
           [] line[1] = "drop"    -> parse_named(line, "drop", "missing filter name")
           [] line[1] = "clear"   -> parse_named(line, "clear", "missing filter name")
           [] line[1] = "persist" -> parse_named(line, "persist", "missing filter name")
           [] OTHER               -> [ok |-> TRUE, req |-> [op |-> "list"]]

\* Request::parse
Request_parse(line) ==
    IF Len(line) = 0 THEN ParserError("missing command")
    ELSE CASE line[1] = "create"  -> parse_create(line)
           [] line[1] = "set"     -> parse_keyed(line, "set")
           [] line[1] = "check"   -> parse_keyed(line, "check")
           [] line[1] = "info"    -> parse_named(line, "info", "missing filter name")
           [] line[1] = "drop"    -> parse_named(line, "drop", "missing filter name")
           [] line[1] = "clear"   -> parse_named(line, "clear", "missing filter name")
           [] line[1] = "persist" -> parse_named(line, "persist", "missing filter name")
           [] line[1] = "list"    -> [ok |-> TRUE, req |-> [op |-> "list"]]
           [] OTHER               -> ParserError("unknown command")

\* Response::serialize, for the one-line responses
Response_serialize(r) ==
    CASE r.kind = "Done"  -> "Done"
      [] r.kind = "True"  -> "True"
      [] r.kind = "False" -> "False"
      [] r.kind = "Error" -> "Error: " \o r.msg

----------------------------------------------------------------------------
(* handle_request, one operator per request kind.  db is the locked        *)
(* FilterDatabase [filters, cold_filters]; each operator gives the         *)
(* database after the request and the response.                            *)

\* where the dispatcher finds the name: it looks in filters first
Tier(db, name) ==
    IF name \in DOMAIN db.filters THEN "warm"
    ELSE IF name \in db.cold_filters THEN "cold"
    ELSE "none"

\* or_insert as it would be with HashMap::insert in its place
or_insert_overwrite(map, name, value) == MapInsert(map, name, value)

\* HashMap::entry(name).or_insert(value)
or_insert(map, name, value) ==
    IF name \in DOMAIN map THEN map ELSE MapInsert(map, name, value)

\* Request::Create
handle_create(db, name, capacity, fpp, t) ==
    [filters      |-> or_insert(db.filters, name,
                        ScalableBloomFilter_new(name, capacity, fpp, SmallScaleSize, t)),
     cold_filters |-> db.cold_filters,
     response     |-> Done]

\* the response of a set from the result of ScalableBloomFilter::set
SetResponse(r, name, key) ==
    CASE r.status = "Ok"    -> Done
      [] r.status = "Err"   -> Error("set \"" \o key \o "\" into \"" \o name \o "\" filter failed: "
                                      \o full_error)
      [] r.status = "Panic" -> Panicked

\* Request::Set ; load is the result of from_file, read only for a cold name
handle_set(db, name, key, load, t) ==
    CASE Tier(db, name) = "warm" ->
            LET r == ScalableBloomFilter_set(db.filters[name], key, t)
            IN  [filters      |-> [db.filters EXCEPT ![name] = r.sbf],
                 cold_filters |-> db.cold_filters,
                 response     |-> SetResponse(r, name, key)]
      [] Tier(db, name) = "cold" ->
            IF load.ok
            THEN LET r == ScalableBloomFilter_set(load.f, key, t)
                 IN  IF r.status = "Panic"
                     THEN [filters |-> db.filters, cold_filters |-> db.cold_filters,
                           response |-> Panicked]
                     ELSE [filters      |-> MapInsert(db.filters, r.sbf.name, r.sbf),
                           cold_filters |-> db.cold_filters \ {name},
                           response     |-> SetResponse(r, name, key)]
            ELSE [filters |-> db.filters, cold_filters |-> db.cold_filters,
                  response |-> Error("error recovering cold filter named " \o name
                                    \o ": " \o io_error)]
      [] Tier(db, name) = "none" ->
            [filters |-> db.filters, cold_filters |-> db.cold_filters,
             response |-> NoSuchFilter(name)]

\* the response of a check from the result of ScalableBloomFilter::check
CheckResponse(r) ==
    IF r.panic THEN Panicked ELSE IF r.result THEN True ELSE False

\* Request::Check as it would be without the cold branch
handle_check_warm_only(db, name, key, load, t) ==
    IF Tier(db, name) = "warm"
    THEN LET r == ScalableBloomFilter_check(db.filters[name], key, t)
         IN  [filters      |-> [db.filters EXCEPT ![name] = r.sbf],
              cold_filters |-> db.cold_filters,
              response     |-> CheckResponse(r)]
    ELSE [filters |-> db.filters, cold_filters |-> db.cold_filters,
          response |-> NoSuchFilter(name)]

\* Request::Check
handle_check(db, name, key, load, t) ==
    CASE Tier(db, name) = "warm" ->
            LET r == ScalableBloomFilter_check(db.filters[name], key, t)
            IN  [filters      |-> [db.filters EXCEPT ![name] = r.sbf],
                 cold_filters |-> db.cold_filters,
                 response     |-> CheckResponse(r)]
      [] Tier(db, name) = "cold" ->
            IF load.ok
            THEN LET r == ScalableBloomFilter_check(load.f, key, t)
                 IN  IF r.panic
                     THEN [filters |-> db.filters, cold_filters |-> db.cold_filters,
                           response |-> Panicked]
                     ELSE [filters      |-> MapInsert(db.filters, r.sbf.name, r.sbf),
                           cold_filters |-> db.cold_filters \ {name},
                           response     |-> CheckResponse(r)]
            ELSE [filters |-> db.filters, cold_filters |-> db.cold_filters,
                  response |-> Error("error recovering cold filter named " \o name
                                    \o ": " \o io_error)]
      [] Tier(db, name) = "none" ->
            [filters |-> db.filters, cold_filters |-> db.cold_filters,
             response |-> NoSuchFilter(name)]

\* Request::Info as it would be if a failed load dropped the cold name
handle_info_forget(db, name, load) ==
    [filters      |-> db.filters,
     cold_filters |-> IF Tier(db, name) = "cold" /\ ~load.ok
                      THEN db.cold_filters \ {name} ELSE db.cold_filters,
     response     |->
        CASE Tier(db, name) = "warm" -> get_filter_info(db.filters[name])
          [] Tier(db, name) = "cold" ->
                IF load.ok THEN get_filter_info(load.f)
                ELSE Error("error recovering cold scalable filter named " \o name
                           \o ": " \o io_error)
          [] Tier(db, name) = "none" -> NoSuchFilter(name)]

\* Request::Info as it would be if it pulled a cold filter back like check
handle_info_promote(db, name, load) ==
    [filters      |-> IF Tier(db, name) = "cold" /\ load.ok
                      THEN MapInsert(db.filters, load.f.name, load.f) ELSE db.filters,
     cold_filters |-> IF Tier(db, name) = "cold" /\ load.ok
                      THEN db.cold_filters \ {name} ELSE db.cold_filters,
     response     |->
        CASE Tier(db, name) = "warm" -> get_filter_info(db.filters[name])
          [] Tier(db, name) = "cold" ->
                IF load.ok THEN get_filter_info(load.f)
                ELSE Error("error recovering cold scalable filter named " \o name
                           \o ": " \o io_error)
          [] Tier(db, name) = "none" -> NoSuchFilter(name)]

\* Request::Info
handle_info(db, name, load) ==
    [filters      |-> db.filters,
     cold_filters |-> db.cold_filters,
     response     |->
        CASE Tier(db, name) = "warm" -> get_filter_info(db.filters[name])
          [] Tier(db, name) = "cold" ->
                IF load.ok THEN get_filter_info(load.f)
                ELSE Error("error recovering cold scalable filter named " \o name
                           \o ": " \o io_error)
          [] Tier(db, name) = "none" -> NoSuchFilter(name)]

\* Request::Drop
handle_drop(db, name) ==
    IF name \in DOMAIN db.filters
    THEN [filters      |-> MapRestrict(db.filters, DOMAIN db.filters \ {name}),
          cold_filters |-> db.cold_filters,
          response     |-> Done]
    ELSE [filters |-> db.filters, cold_filters |-> db.cold_filters,
          response |-> NoSuchFilter(name)]

\* Request::Clear
handle_clear(db, name, t) ==
    IF name \in DOMAIN db.filters
    THEN [filters      |-> [db.filters EXCEPT ![name] = ScalableBloomFilter_clear(@, t)],
          cold_filters |-> db.cold_filters,
          response     |-> Done]
    ELSE [filters |-> db.filters, cold_filters |-> db.cold_filters,
          response |-> NoSuchFilter(name)]

\* Request::List : one (name, capacity, fpp) entry per warm filter
handle_list(db) ==
    [kind    |-> "List",
     filters |-> {<<db.filters[n].name, sbf_capacity(db.filters[n]), db.filters[n].fpp>> :
                    n \in DOMAIN db.filters}]

\* Request::Persist ; a failed write leaves the file as it was
handle_persist(db, d, name, ioOk) ==
    IF name \in DOMAIN db.filters
    THEN IF ioOk
         THEN [disk |-> to_file(d, db.filters[name]), response |-> Done]
         ELSE [disk |-> d, response |-> Error("persist failed " \o io_error)]
    ELSE [disk |-> d, response |-> NoSuchFilter(name)]

----------------------------------------------------------------------------
(* The persistence workers: one pass of each loop, under the registry lock *)

\* the files after writing the filters named in written
WriteAll(d, fs, written) ==
    [k \in DOMAIN d \cup written |-> IF k \in written THEN serialize(fs[k]) ELSE d[k]]

\* dump_to_disk : every warm filter is written; bad are the names whose
\* write fails
dump_to_disk(db, d, bad) == WriteAll(d, db.filters, DOMAIN db.filters \ bad)

\* dump_cold_filters, the condition of the write loop
IsCold(f, t) == t - f.last_access_time > COLD_FILTER_TIMEOUT

\* dump_cold_filters, the condition of retain
IsRetained(f, t) == t - f.last_access_time < COLD_FILTER_TIMEOUT

\* dump_cold_filters as it would be if a name were made cold whatever its
\* write returned
dump_cold_filters_unchecked(db, d, t, bad) ==
    LET idle    == {k \in DOMAIN db.filters : IsCold(db.filters[k], t)}
        written == idle \ bad
    IN  [filters      |-> MapRestrict(db.filters,
                            {k \in DOMAIN db.filters : IsRetained(db.filters[k], t)}),
         cold_filters |-> db.cold_filters \cup idle,
         disk         |-> WriteAll(d, db.filters, written)]

\* dump_cold_filters : t is `now`, read once; bad are the names whose write
\* fails
dump_cold_filters(db, d, t, bad) ==
    LET written == {k \in DOMAIN db.filters : IsCold(db.filters[k], t)} \ bad
    IN  [filters      |-> MapRestrict(db.filters,
                            {k \in DOMAIN db.filters : IsRetained(db.filters[k], t)}),
         cold_filters |-> db.cold_filters \cup written,
         disk         |-> WriteAll(d, db.filters, written)]

----------------------------------------------------------------------------
(* The tasks of the runtime: one per connection and the two workers *)

Clients == {"c1", "c2"}
Workers == {"dump_to_disk", "dump_cold_filters"}
Tasks == Clients \cup Workers

\* a connection task awaits its next line, a worker sleeps
tasks_at_start ==
    [t \in Tasks |-> IF t \in Clients THEN [pc |-> "next"] ELSE [pc |-> "sleep"]]

----------------------------------------------------------------------------
(* The server *)

db == [filters |-> filters, cold_filters |-> cold_filters]

\* hash_count of the stages of a filter created with (n0, p0)
StageHashCount(n0, p0) ==
    get_optimal_hash_count(get_bitmap_size(n0 * SmallScaleSize, TightenFpp(p0)),
                           n0 * SmallScaleSize)

\* the seeds the modelled filters use
MaxSeeds ==
    LET ks == {StageHashCount(n0, p0) : n0 \in FilterCapacities \ {0}, p0 \in FilterFpps}
    IN  CHOOSE k \in ks : \A j \in ks : j <= k

Seeds == 0..(MaxSeeds - 1)

HashFamilies == [Keys \X Seeds -> 0..(HashSpace - 1)]

\* the hash family the server is run with: every key hashes to 0, so each
\* key is a false positive of the other
ServerHashes == {h \in HashFamilies : \A k \in Keys, s \in Seeds : h[<<k, s>>] = 0}

\* hits + miss of a filter
Checks(f) == sbf_hits(f) + sbf_miss(f)

\* the filter a set or check on name would run on, if any
Target(name, load) ==
    IF name \in DOMAIN filters THEN {filters[name]}
    ELSE IF name \in cold_filters /\ load.ok THEN {load.f}
    ELSE {}

\* the outcomes of the read a request on name makes: only a cold name is
\* read from disk
ReadOutcomes(name) == IF Tier(db, name) = "cold" THEN BOOLEAN ELSE {TRUE}

\* the outcomes of the write a persist of name makes
WriteOutcomes(name) == IF name \in DOMAIN filters THEN BOOLEAN ELSE {TRUE}

\* what a step records of the disk access it made for a cold name
IoOf(name, load) ==
    IF Tier(db, name) = "cold" THEN (IF load.ok THEN "ok" ELSE "fail") ELSE "none"

Init ==
    /\ filters = EmptyMap
    /\ cold_filters = {}
    /\ disk = EmptyMap
    /\ now = 0
    /\ hash \in ServerHashes
    /\ request = [op |-> "run"]
    /\ response = [kind |-> "none"]
    /\ sbf = ScalableBloomFilter_new("", 0, 0, SmallScaleSize, 0)
    /\ inserted = {}
    /\ task = tasks_at_start
    /\ mutex = FALSE

Create(name, capacity, fpp) ==
    LET out == handle_create(db, name, capacity, fpp, now)
    IN  /\ filters' = out.filters
        /\ cold_filters' = out.cold_filters
        /\ response' = out.response
        /\ request' = [op |-> "create", name |-> name, capacity |-> capacity,
                       fpp |-> fpp, tier |-> Tier(db, name)]
        /\ UNCHANGED <<disk, now, hash, sbf, inserted, task, mutex>>

Set(name, key, ioOk) ==
    LET load == from_file(disk, name, ioOk)
        out  == handle_set(db, name, key, load, now)
    IN  /\ \A f \in Target(name, load) : Checks(f) < MaxChecks
        /\ filters' = out.filters
        /\ cold_filters' = out.cold_filters
        /\ response' = out.response
        /\ request' = [op |-> "set", name |-> name, key |-> key,
                       tier |-> Tier(db, name), io |-> IoOf(name, load)]
        /\ UNCHANGED <<disk, now, hash, sbf, inserted, task, mutex>>

Check(name, key, ioOk) ==
    LET load == from_file(disk, name, ioOk)
        out  == handle_check(db, name, key, load, now)
    IN  /\ \A f \in Target(name, load) : Checks(f) < MaxChecks
        /\ filters' = out.filters
        /\ cold_filters' = out.cold_filters
        /\ response' = out.response
        /\ request' = [op |-> "check", name |-> name, key |-> key,
                       tier |-> Tier(db, name), io |-> IoOf(name, load)]
        /\ UNCHANGED <<disk, now, hash, sbf, inserted, task, mutex>>

Info(name, ioOk) ==
    LET load == from_file(disk, name, ioOk)
        out  == handle_info(db, name, load)
    IN  /\ filters' = out.filters
        /\ cold_filters' = out.cold_filters
        /\ response' = out.response
        /\ request' = [op |-> "info", name |-> name,
                       tier |-> Tier(db, name), io |-> IoOf(name, load)]
        /\ UNCHANGED <<disk, now, hash, sbf, inserted, task, mutex>>

Drop(name) ==
    LET out == handle_drop(db, name)
    IN  /\ filters' = out.filters
        /\ cold_filters' = out.cold_filters
        /\ response' = out.response
        /\ request' = [op |-> "drop", name |-> name, tier |-> Tier(db, name)]
        /\ UNCHANGED <<disk, now, hash, sbf, inserted, task, mutex>>

Clear(name) ==
    LET out == handle_clear(db, name, now)
    IN  /\ filters' = out.filters
        /\ cold_filters' = out.cold_filters
        /\ response' = out.response
        /\ request' = [op |-> "clear", name |-> name, tier |-> Tier(db, name)]
        /\ UNCHANGED <<disk, now, hash, sbf, inserted, task, mutex>>

Persist(name, ioOk) ==
    LET out == handle_persist(db, disk, name, ioOk)
    IN  /\ disk' = out.disk
        /\ response' = out.response
        /\ request' = [op |-> "persist", name |-> name, tier |-> Tier(db, name)]
        /\ UNCHANGED <<filters, cold_filters, now, hash, sbf, inserted, task, mutex>>

List ==
    /\ response' = handle_list(db)
    /\ request' = [op |-> "list"]
    /\ UNCHANGED <<filters, cold_filters, disk, now, hash, sbf, inserted, task, mutex>>

\* one pass of the dump_to_disk worker
FullDump(bad) ==
    /\ disk' = dump_to_disk(db, disk, bad)
    /\ request' = [op |-> "dump", bad |-> bad]
    /\ response' = [kind |-> "none"]
    /\ UNCHANGED <<filters, cold_filters, now, hash, sbf, inserted, task, mutex>>

\* one pass of the dump_cold_filters worker
ColdSweep(bad) ==
    LET out == dump_cold_filters(db, disk, now, bad)
    IN  /\ filters' = out.filters
        /\ cold_filters' = out.cold_filters
        /\ disk' = out.disk
        /\ request' = [op |-> "sweep", bad |-> bad]
        /\ response' = [kind |-> "none"]
        /\ UNCHANGED <<now, hash, sbf, inserted, task, mutex>>

\* time passes
Tick ==
    /\ now + TickStep <= MaxTicks * TickStep
    /\ now' = now + TickStep
    /\ request' = [op |-> "tick"]
    /\ response' = [kind |-> "none"]
    /\ UNCHANGED <<filters, cold_filters, disk, hash, sbf, inserted, task, mutex>>

Next ==
    \/ \E name \in Names, capacity \in Capacities, fpp \in Fpps : Create(name, capacity, fpp)
    \/ \E name \in Names, key \in Keys : \E ioOk \in ReadOutcomes(name) : Set(name, key, ioOk)
    \/ \E name \in Names, key \in Keys : \E ioOk \in ReadOutcomes(name) : Check(name, key, ioOk)
    \/ \E name \in Names : \E ioOk \in ReadOutcomes(name) : Info(name, ioOk)
    \/ \E name \in Names : Drop(name)
    \/ \E name \in Names : Clear(name)
    \/ \E name \in Names : \E ioOk \in WriteOutcomes(name) : Persist(name, ioOk)
    \/ List
    \/ \E bad \in SUBSET DOMAIN filters : FullDump(bad)
    \/ \E bad \in SUBSET DOMAIN filters : ColdSweep(bad)
    \/ Tick

Spec == Init /\ [][Next]_vars

----------------------------------------------------------------------------
(* One ScalableBloomFilter, for every hash family.  All operations run at   *)
(* the instant of construction: the clock does not advance here.           *)

FilterInit ==
    /\ filters = EmptyMap
    /\ cold_filters = {}
    /\ disk = EmptyMap
    /\ now = 0
    /\ hash \in HashFamilies
    /\ request = [op |-> "new"]
    /\ response = [kind |-> "none"]
    /\ \E n0 \in FilterCapacities, p0 \in FilterFpps :
          sbf = ScalableBloomFilter_new("sbf", n0, p0, SmallScaleSize, 0)
    /\ inserted = {}
    /\ task = tasks_at_start
    /\ mutex = FALSE

\* sbf.set(key)
FilterSet(key) ==
    LET r == ScalableBloomFilter_set(sbf, key, now)
    IN  /\ Checks(sbf) < MaxChecks
        /\ sbf' = r.sbf
        /\ inserted' = IF r.status = "Ok" THEN inserted \cup {key} ELSE inserted
        /\ request' = [op |-> "set", key |-> key]
        /\ response' = [kind |-> r.status, value |-> r.value]
        /\ UNCHANGED <<filters, cold_filters, disk, now, hash, task, mutex>>

\* sbf.check(key)
FilterCheck(key) ==
    LET r == ScalableBloomFilter_check(sbf, key, now)
    IN  /\ Checks(sbf) < MaxChecks
        /\ sbf' = r.sbf
        /\ request' = [op |-> "check", key |-> key]
        /\ response' = CheckResponse(r)
        /\ UNCHANGED <<filters, cold_filters, disk, now, hash, inserted, task, mutex>>

\* sbf.clear()
FilterClear ==
    /\ sbf' = ScalableBloomFilter_clear(sbf, now)
    /\ inserted' = {}
    /\ request' = [op |-> "clear"]
    /\ response' = [kind |-> "none"]
    /\ UNCHANGED <<filters, cold_filters, disk, now, hash, task, mutex>>

FilterNext ==
    \/ \E key \in Keys : FilterSet(key)
    \/ \E key \in Keys : FilterCheck(key)
    \/ FilterClear

FilterSpec == FilterInit /\ [][FilterNext]_vars

----------------------------------------------------------------------------
(* The growth scenario of scalable_filter_tests::test_set: one filter built *)
(* with (5, 0.01, small) is fed distinct items, in any order.               *)

\* the items fed to the filter
GrowthKeys == 1..MaxItems

\* hash_count of the stages of the (5, 0.01, small) filter
GrowthHashCount == StageHashCount(5, 100)

GrowthSeeds == 0..(GrowthHashCount - 1)

\* Hash families under which no item is ever reported present before it is
\* set: the probed positions of distinct items are disjoint (spread over
\* hash_count positions, or all on one position), or two consecutive items
\* share exactly one position.
GrowthHashes ==
    {[p \in GrowthKeys \X GrowthSeeds |-> (p[1] - 1) * GrowthHashCount + p[2]],
     [p \in GrowthKeys \X GrowthSeeds |-> p[1] - 1],
     [p \in GrowthKeys \X GrowthSeeds |-> (p[1] - 1) * (GrowthHashCount - 1) + p[2]]}

GrowthInit ==
    /\ filters = EmptyMap
    /\ cold_filters = {}
    /\ disk = EmptyMap
    /\ now = 0
    /\ hash \in GrowthHashes
    /\ request = [op |-> "new"]
    /\ response = [kind |-> "none"]
    /\ sbf = ScalableBloomFilter_new("test-sbf", 5, 100, SmallScaleSize, 0)
    /\ inserted = {}
    /\ task = tasks_at_start
    /\ mutex = FALSE

\* sbf.set(key) for an item not fed before
GrowthSet(key) ==
    LET r == ScalableBloomFilter_set(sbf, key, now)
    IN  /\ key \notin inserted
        /\ sbf' = r.sbf
        /\ inserted' = IF r.status = "Ok" THEN inserted \cup {key} ELSE inserted
        /\ request' = [op |-> "set", key |-> key]
        /\ response' = [kind |-> r.status, value |-> r.value]
        /\ UNCHANGED <<filters, cold_filters, disk, now, hash, task, mutex>>

GrowthNext == \E key \in GrowthKeys : GrowthSet(key)

GrowthSpec == GrowthInit /\ [][GrowthNext]_vars

----------------------------------------------------------------------------
(* The sizing of a primitive filter: BloomFilter::new applied to item       *)
(* counts and probabilities, those of the unit tests among them.            *)

SizingCapacities == (1..MaxSizing) \cup {192, 400, 1500}

\* 0.001, 0.01, 0.05, 0.5
SizingFpps == {10, 100, 500, 5000}

\* add_filter(capacity, fpp) on a filter that has no stage
SizingNew(capacity, fpp) ==
    /\ sbf.filters = << >>
    /\ sbf' = add_filter(sbf, capacity, fpp).sbf
    /\ request' = [op |-> "add_filter", capacity |-> capacity, fpp |-> fpp]
    /\ UNCHANGED <<filters, cold_filters, disk, now, hash, response, inserted, task, mutex>>

SizingNext == \E capacity \in SizingCapacities, fpp \in SizingFpps : SizingNew(capacity, fpp)

SizingSpec == Init /\ [][SizingNext]_vars

----------------------------------------------------------------------------
(* The accept loop of Server::run: each call of Server::accept retries the  *)
(* listener with a growing pause until it gives a connection or the pause  *)
(* has outgrown the threshold.                                             *)

\* Server::run calls self.accept(): `let mut backoff = 1`
accept_called(accepted) ==
    [pc |-> "accept", backoff |-> 1, waited |-> << >>, accepted |-> accepted]

AcceptInit ==
    /\ filters = EmptyMap
    /\ cold_filters = {}
    /\ disk = EmptyMap
    /\ now = 0
    /\ hash \in ServerHashes
    /\ request = [op |-> "run"]
    /\ response = [kind |-> "none"]
    /\ sbf = ScalableBloomFilter_new("", 0, 0, SmallScaleSize, 0)
    /\ inserted = {}
    /\ task = [t \in {"run"} |-> accept_called(0)]
    /\ mutex = FALSE

\* listener.accept() gives a socket: accept returns it, run spawns the
\* connection task and calls accept again
AcceptOk ==
    /\ task["run"].pc = "accept"
    /\ task["run"].accepted < MaxAccepts
    /\ task' = [task EXCEPT !["run"] = accept_called(task["run"].accepted + 1)]
    /\ request' = [op |-> "accept", result |-> "Ok"]
    /\ UNCHANGED <<filters, cold_filters, disk, now, hash, response, sbf, inserted, mutex>>

\* AcceptErr as it would be with `backoff >= self.backoff`
AcceptErr_early ==
    /\ task["run"].pc = "accept"
    /\ IF task["run"].backoff >= BACKOFF
       THEN /\ task' = [task EXCEPT !["run"].pc = "failed"]
            /\ request' = [op |-> "accept", result |-> "Err"]
       ELSE /\ task' = [task EXCEPT !["run"].pc = "sleep"]
            /\ request' = [op |-> "accept", result |-> "retry"]
    /\ UNCHANGED <<filters, cold_filters, disk, now, hash, response, sbf, inserted, mutex>>

\* listener.accept() gives an error: accept returns it (and run with it)
\* once backoff has outgrown the threshold, and goes to sleep otherwise
AcceptErr ==
    /\ task["run"].pc = "accept"
    /\ IF task["run"].backoff > BACKOFF
       THEN /\ task' = [task EXCEPT !["run"].pc = "failed"]
            /\ request' = [op |-> "accept", result |-> "Err"]
       ELSE /\ task' = [task EXCEPT !["run"].pc = "sleep"]
            /\ request' = [op |-> "accept", result |-> "retry"]
    /\ UNCHANGED <<filters, cold_filters, disk, now, hash, response, sbf, inserted, mutex>>

\* sleep(Duration::from_secs(backoff)).await; backoff *= 2
AcceptSleep ==
    /\ task["run"].pc = "sleep"
    /\ now' = now + task["run"].backoff
    /\ task' = [task EXCEPT !["run"].pc = "accept",
                            !["run"].backoff = 2 * @,
                            !["run"].waited = Append(@, task["run"].backoff)]
    /\ request' = [op |-> "sleep", secs |-> task["run"].backoff]
    /\ UNCHANGED <<filters, cold_filters, disk, hash, response, sbf, inserted, mutex>>

AcceptNext ==
    \/ AcceptOk
    \/ AcceptErr
    \/ AcceptSleep

AcceptSpec == AcceptInit /\ [][AcceptNext]_vars

----------------------------------------------------------------------------
(* ScalableBloomFilter::set on filters read from files.  Server::init puts  *)
(* into the registry whatever the files of the data directory decode to,   *)
(* and bincode checks no relation between the fields of a stage: a decoded *)
(* stage may count more items than its bitmap holds.                       *)

\* the stage of a filter created with (1, 0.7, small)
LoadedStage == BloomFilter_new(1 * SmallScaleSize, TightenFpp(7000)).bf

\* the stage blobs of that shape: any item count, any bits
LoadedStages ==
    {serialize_bf([LoadedStage EXCEPT !.size = size, !.bitmap = bitmap]) :
        size \in 0..LoadedStage.capacity,
        bitmap \in [DOMAIN LoadedStage.bitmap -> BOOLEAN]}

\* the files found at startup: one-stage filters, and filters persisted
\* before their first set
LoadedFiles ==
    {<<"sbf", 1, <<stage>>, 7000, SmallScaleSize, 0, 0>> : stage \in LoadedStages}
        \cup {<<"sbf", n0, << >>, p0, SmallScaleSize, 0, 0>> :
                 n0 \in FilterCapacities, p0 \in FilterFpps}

\* the stages probe with seed 0 only
LoadedHashes == {h \in HashFamilies : \A k \in Keys, seed \in Seeds : seed > 0 => h[<<k, seed>>] = 0}

LoadedInit ==
    /\ filters = EmptyMap
    /\ cold_filters = {}
    /\ disk = EmptyMap
    /\ now = 0
    /\ hash \in LoadedHashes
    /\ request = [op |-> "init"]
    /\ response = [kind |-> "none"]
    /\ sbf \in {deserialize(blob) : blob \in LoadedFiles}
    /\ inserted = {}
    /\ task = tasks_at_start
    /\ mutex = FALSE

LoadedNext ==
    \/ \E key \in Keys : FilterSet(key)
    \/ FilterClear

LoadedSpec == LoadedInit /\ [][LoadedNext]_vars

----------------------------------------------------------------------------
(* The server as its tasks run it: connection tasks that read a line, lock  *)
(* the registry, handle the request and answer; the two workers.  A step    *)
(* runs a task from one await that can suspend it to the next: the lock of  *)
(* the registry, a read or a write of a file.                               *)

\* the lines the clients send: every command, and lines that do not parse
\* (a number that is none, a missing argument, an unknown command)
TaskLines ==
    {<<"create", "a", "1", "0.5">>, <<"create", "a", "0", "0.5">>,
     <<"set", "a", "x">>, <<"set", "a", "y">>,
     <<"check", "a", "x">>, <<"info", "a">>, <<"drop", "a">>,
     <<"clear", "a">>, <<"persist", "a">>, <<"list">>,
     <<"create", "bad", "foo", "0.01">>,
     <<"set", "a">>, <<"flush", "a">>}

\* the first client sends any of the lines, the second creates, sets and
\* checks on the same filter
LinesOf(c) ==
    IF c = "c1" THEN TaskLines
    ELSE {<<"create", "a", "1", "0.5">>, <<"set", "a", "y">>, <<"check", "a", "x">>}

\* hits + miss of a filter the tasks share never grows beyond this
MaxTaskChecks == MaxChecks - 1

\* the hash family the tasks are run with: "x" and "y" share one of their
\* two positions, neither is reported present because of the other
TaskHashes ==
    {h \in HashFamilies :
        /\ h[<<"x", 0>>] = 0 /\ h[<<"x", 1>>] = 1
        /\ h[<<"y", 0>>] = 1 /\ h[<<"y", 1>>] = 2
        /\ \A k \in Keys, s \in Seeds : s > 1 => h[<<k, s>>] = 0}

\* db.lock().await as it would be if it did not wait for the holder
CanLock_anyway == TRUE

\* db.lock().await returns when the Mutex is free
CanLock == ~mutex

\* the task is between db.lock().await and the drop of the guard
InSection(t) == task[t].pc \in {"io", "write"}

\* the outcome of a handler that leaves the files alone
with_disk(out, d) ==
    [filters |-> out.filters, cold_filters |-> out.cold_filters,
     disk |-> d, response |-> out.response]

\* handle_request after the parse: the database, the files and the response
handle_request(dbv, d, req, ioOk, t) ==
    CASE req.op = "create" ->
            with_disk(handle_create(dbv, req.name, req.capacity, req.fpp, t), d)
      [] req.op = "set" ->
            with_disk(handle_set(dbv, req.name, req.key,
                                 from_file(d, req.name, ioOk), t), d)
      [] req.op = "check" ->
            with_disk(handle_check(dbv, req.name, req.key,
                                   from_file(d, req.name, ioOk), t), d)
      [] req.op = "info" ->
            with_disk(handle_info(dbv, req.name, from_file(d, req.name, ioOk)), d)
      [] req.op = "drop" -> with_disk(handle_drop(dbv, req.name), d)
      [] req.op = "clear" -> with_disk(handle_clear(dbv, req.name, t), d)
      [] req.op = "persist" ->
            [filters |-> dbv.filters, cold_filters |-> dbv.cold_filters,
             disk |-> handle_persist(dbv, d, req.name, ioOk).disk,
             response |-> handle_persist(dbv, d, req.name, ioOk).response]
      [] req.op = "list" ->
            [filters |-> dbv.filters, cold_filters |-> dbv.cold_filters,
             disk |-> d, response |-> handle_list(dbv)]

\* does the handler await a file while it holds the lock?
AwaitsFile(req) ==
    \/ req.op \in {"set", "check", "info"} /\ Tier(db, req.name) = "cold"
    \/ req.op = "persist" /\ req.name \in DOMAIN filters

\* the filter a set or check would run on has room left in its counters
CheckBudget(req) ==
    req.op \in {"set", "check"} =>
        \A f \in Target(req.name, from_file(disk, req.name, TRUE)) :
            Checks(f) < MaxTaskChecks

\* the connection loop after a response: it sends it and awaits the next
\* line; a panic of the handler has unwound the task
after_response(r) == IF r = Panicked THEN "dead" ELSE "next"

\* the <<name, key>> pairs set with success on the filters that now exist
Recorded(req, r) ==
    CASE req.op = "set" /\ r = Done -> inserted \cup {<<req.name, req.key>>}
      [] req.op \in {"drop", "clear"} /\ r = Done ->
            {p \in inserted : p[1] # req.name}
      [] req.op = "create" /\ req.name \notin DOMAIN filters ->
            {p \in inserted : p[1] # req.name}
      [] OTHER -> inserted

\* the rest of handle_request once no await is left, the drop of the guard
\* and the send of the response
Respond(c, line, req, ioOk) ==
    \E out \in {handle_request(db, disk, req, ioOk, now)} :
        /\ filters' = out.filters
        /\ cold_filters' = out.cold_filters
        /\ disk' = out.disk
        /\ response' = out.response
        /\ request' = req @@ [task |-> c, line |-> line]
        /\ inserted' = Recorded(req, out.response)
        /\ task' = [task EXCEPT ![c] = [pc |-> after_response(out.response)]]
        /\ mutex' = FALSE
        /\ UNCHANGED <<now, hash, sbf>>

\* lines.next() gives a line: parse it; answer a parse error; otherwise lock
\* the registry and run the handler up to its first await of a file
Serve(c, line) ==
    LET p == Request_parse(line)
    IN  /\ task[c].pc = "next"
        /\ IF ~p.ok
           THEN /\ response' = Error(p.message)
                /\ request' = [op |-> "parse", task |-> c, line |-> line]
                /\ task' = [task EXCEPT ![c] = [pc |-> after_response(Error(p.message))]]
                /\ UNCHANGED <<filters, cold_filters, disk, now, hash, sbf, inserted, mutex>>
           ELSE /\ CanLock
                /\ CheckBudget(p.req)
                /\ IF AwaitsFile(p.req)
                   THEN /\ mutex' = TRUE
                        /\ task' = [task EXCEPT ![c] = [pc |-> "io", line |-> line]]
                        /\ request' = [op |-> "lock", task |-> c, line |-> line]
                        /\ response' = [kind |-> "none"]
                        /\ UNCHANGED <<filters, cold_filters, disk, now, hash, sbf, inserted>>
                   ELSE Respond(c, line, p.req, TRUE)

\* the file the handler awaited was read or written, or failed to be
Complete(c, ioOk) ==
    /\ task[c].pc = "io"
    /\ Respond(c, task[c].line, Request_parse(task[c].line).req, ioOk)

\* dump_to_disk wakes up, locks the registry and starts to iterate
DumpStart ==
    /\ task["dump_to_disk"].pc = "sleep"
    /\ CanLock
    /\ DOMAIN filters # {}
    /\ mutex' = TRUE
    /\ task' = [task EXCEPT !["dump_to_disk"] =
                    [pc |-> "write", todo |-> DOMAIN filters, failed |-> {}]]
    /\ request' = [op |-> "lock", task |-> "dump_to_disk"]
    /\ response' = [kind |-> "none"]
    /\ UNCHANGED <<filters, cold_filters, disk, now, hash, sbf, inserted>>

\* DumpWrite as it would be if a failed write ended the pass (`?` on to_file)
DumpWrite_abort(n, ok) ==
    LET me     == task["dump_to_disk"]
        todo   == IF ok THEN me.todo \ {n} ELSE {}
        failed == IF ok THEN me.failed ELSE me.failed \cup {n}
    IN  /\ me.pc = "write"
        /\ n \in me.todo
        /\ disk' = IF ok THEN to_file(disk, filters[n]) ELSE disk
        /\ IF todo = {}
           THEN /\ task' = [task EXCEPT !["dump_to_disk"] = [pc |-> "sleep"]]
                /\ mutex' = FALSE
           ELSE /\ task' = [task EXCEPT !["dump_to_disk"] =
                                [pc |-> "write", todo |-> todo, failed |-> failed]]
                /\ mutex' = mutex
        /\ request' = [op |-> "dump", task |-> "dump_to_disk", name |-> n, ok |-> ok,
                       failed |-> failed]
        /\ response' = [kind |-> "none"]
        /\ UNCHANGED <<filters, cold_filters, now, hash, sbf, inserted>>

\* dump_to_disk writes one filter and logs the outcome (failed: the names
\* logged with an error in this pass); after the last it drops the guard
DumpWrite(n, ok) ==
    LET me     == task["dump_to_disk"]
        todo   == me.todo \ {n}
        failed == IF ok THEN me.failed ELSE me.failed \cup {n}
    IN  /\ me.pc = "write"
        /\ n \in me.todo
        /\ disk' = IF ok THEN to_file(disk, filters[n]) ELSE disk
        /\ IF todo = {}
           THEN /\ task' = [task EXCEPT !["dump_to_disk"] = [pc |-> "sleep"]]
                /\ mutex' = FALSE
           ELSE /\ task' = [task EXCEPT !["dump_to_disk"] =
                                [pc |-> "write", todo |-> todo, failed |-> failed]]
                /\ mutex' = mutex
        /\ request' = [op |-> "dump", task |-> "dump_to_disk", name |-> n, ok |-> ok,
                       failed |-> failed]
        /\ response' = [kind |-> "none"]
        /\ UNCHANGED <<filters, cold_filters, now, hash, sbf, inserted>>

\* dump_cold_filters locks the registry and reads the clock; with no filter
\* to write it goes on to retain and drops the guard
SweepStart ==
    LET cold == {k \in DOMAIN filters : IsCold(filters[k], now)}
    IN  /\ task["dump_cold_filters"].pc = "sleep"
        /\ CanLock
        /\ IF cold = {}
           THEN /\ filters' = MapRestrict(filters,
                                {k \in DOMAIN filters : IsRetained(filters[k], now)})
                /\ request' = [op |-> "sweep", task |-> "dump_cold_filters"]
                /\ UNCHANGED <<task, mutex>>
           ELSE /\ mutex' = TRUE
                /\ task' = [task EXCEPT !["dump_cold_filters"] =
                                [pc |-> "write", todo |-> cold, now |-> now]]
                /\ request' = [op |-> "lock", task |-> "dump_cold_filters"]
                /\ UNCHANGED filters
        /\ response' = [kind |-> "none"]
        /\ UNCHANGED <<cold_filters, disk, now, hash, sbf, inserted>>

\* dump_cold_filters writes one cold filter; after the last it retains the
\* filters that are not idle and drops the guard
SweepWrite(n, ok) ==
    LET me == task["dump_cold_filters"]
    IN  /\ me.pc = "write"
        /\ n \in me.todo
        /\ disk' = IF ok THEN to_file(disk, filters[n]) ELSE disk
        /\ cold_filters' = IF ok THEN cold_filters \cup {n} ELSE cold_filters
        /\ IF me.todo \ {n} = {}
           THEN /\ filters' = MapRestrict(filters,
                                {k \in DOMAIN filters : IsRetained(filters[k], me.now)})
                /\ task' = [task EXCEPT !["dump_cold_filters"] = [pc |-> "sleep"]]
                /\ mutex' = FALSE
           ELSE /\ task' = [task EXCEPT !["dump_cold_filters"].todo = me.todo \ {n}]
                /\ UNCHANGED <<filters, mutex>>
        /\ request' = [op |-> "sweep", task |-> "dump_cold_filters", name |-> n, ok |-> ok]
        /\ response' = [kind |-> "none"]
        /\ UNCHANGED <<now, hash, sbf, inserted>>

\* time passes: long enough for the filters not accessed to become cold
TaskTick ==
    /\ now = 0
    /\ now' = COLD_FILTER_TIMEOUT + 1
    /\ request' = [op |-> "tick"]
    /\ response' = [kind |-> "none"]
    /\ UNCHANGED <<filters, cold_filters, disk, hash, sbf, inserted, task, mutex>>

TaskInit ==
    /\ filters = EmptyMap
    /\ cold_filters = {}
    /\ disk = EmptyMap
    /\ now = 0
    /\ hash \in TaskHashes
    /\ request = [op |-> "run"]
    /\ response = [kind |-> "none"]
    /\ sbf = ScalableBloomFilter_new("", 0, 0, SmallScaleSize, 0)
    /\ inserted = {}
    /\ task = tasks_at_start
    /\ mutex = FALSE

TaskNext ==
    \/ \E c \in Clients : \E line \in LinesOf(c) : Serve(c, line)
    \/ \E c \in Clients, ioOk \in BOOLEAN : Complete(c, ioOk)
    \/ DumpStart
    \/ \E n \in Names, ok \in BOOLEAN : DumpWrite(n, ok)
    \/ SweepStart
    \/ \E n \in Names, ok \in BOOLEAN : SweepWrite(n, ok)
    \/ TaskTick

TaskSpec == TaskInit /\ [][TaskNext]_vars

----------------------------------------------------------------------------
(* The server while its disk works: every request of the clients as one    *)
(* step under the registry lock, every read and write succeeding, the two  *)
(* workers and the clock.                                                  *)

\* the requests the clients send
TierRequests ==
    {[op |-> "create", name |-> n, capacity |-> 1, fpp |-> f] : n \in Names, f \in Fpps}
        \cup {[op |-> o, name |-> n, key |-> k] :
                 o \in {"set", "check"}, n \in Names, k \in Keys}
        \cup {[op |-> o, name |-> n] :
                 o \in {"info", "drop", "clear", "persist"}, n \in Names}
        \cup {[op |-> "list"]}

\* the <<name, key>> pairs whose set was answered Done with no drop or clear
\* of the name sent since
Remembered(req, r) ==
    CASE req.op = "set" /\ r = Done -> inserted \cup {<<req.name, req.key>>}
      [] req.op \in {"drop", "clear"} -> {p \in inserted : p[1] # req.name}
      [] OTHER -> inserted

\* handle_request for a parsed request, its reads and writes succeeding
TierRespond(req) ==
    \E out \in {handle_request(db, disk, req, TRUE, now)} :
        /\ req.op \in {"set", "check"} =>
               \A f \in Target(req.name, from_file(disk, req.name, TRUE)) :
                   Checks(f) < MaxChecks
        /\ filters' = out.filters
        /\ cold_filters' = out.cold_filters
        /\ disk' = out.disk
        /\ response' = out.response
        /\ request' = req
        /\ inserted' = Remembered(req, out.response)
        /\ UNCHANGED <<now, hash, sbf, task, mutex>>

TierNext ==
    \/ \E req \in TierRequests : TierRespond(req)
    \/ FullDump({})
    \/ ColdSweep({})
    \/ Tick

TierSpec == Init /\ [][TierNext]_vars

----------------------------------------------------------------------------
(* The full dump over several filters: one connection creates, fills and    *)
(* drops the filters of the registry while dump_to_disk runs its passes.    *)

DumpNames == {"a", "b"}

\* the lines the connection sends
DumpLines ==
    {<<"create", n, "1", "0.5">> : n \in DumpNames}
        \cup {<<"set", n, "x">> : n \in DumpNames}
        \cup {<<"set", "a", "y">>, <<"drop", "b">>}

DumpNext ==
    \/ \E line \in DumpLines : Serve("c1", line)
    \/ DumpStart
    \/ \E n \in DumpNames, ok \in BOOLEAN : DumpWrite(n, ok)

DumpSpec == TaskInit /\ [][DumpNext]_vars

----------------------------------------------------------------------------
(* Properties of the registry (Spec) *)

\* the name was in cold_filters and not in filters when the last step ran
WasCold == "tier" \in DOMAIN request /\ request.tier = "cold"

\* C1: in every reachable state no name is both a key of filters and a
\* member of cold_filters.
C1_WarmColdDisjoint == DOMAIN filters \cap cold_filters = {}

\* C2: a create on a cold name is a no-op: after it the name is still cold
\* and not in filters.
C2_CreateColdNoOp ==
    (request.op = "create" /\ WasCold) =>
        (request.name \notin DOMAIN filters /\ request.name \in cold_filters)

\* C3: a create on a warm name answers Done and leaves the existing filter
\* (and the rest of the registry and the disk) unchanged, whatever n and p.
C3_CreateWarmNoOp ==
    [][(request'.op = "create" /\ request'.name \in DOMAIN filters) =>
          (/\ response' = Done
           /\ filters' = filters
           /\ cold_filters' = cold_filters
           /\ disk' = disk)]_vars

\* a create with other parameters was just answered for a warm filter that
\* holds a key
C3_Witness ==
    /\ request.op = "create" /\ request.tier = "warm"
    /\ response = Done
    /\ request.name \in DOMAIN filters
    /\ request.capacity # filters[request.name].initial_capacity
    /\ sbf_size(filters[request.name]) > 0

\* C4: a cold sweep (whose writes succeed) writes every warm filter idle
\* for >= COLD_FILTER_TIMEOUT to disk, makes its name cold, and leaves in
\* filters exactly the filters idle for less.
C4_SweepEvictsIdle ==
    [][(request'.op = "sweep" /\ request'.bad = {}) =>
          (/\ \A n \in DOMAIN filters :
                 now - filters[n].last_access_time >= COLD_FILTER_TIMEOUT =>
                    (/\ n \in cold_filters'
                     /\ n \in DOMAIN disk'
                     /\ disk'[n] = serialize(filters[n]))
           /\ DOMAIN filters' =
                 {n \in DOMAIN filters :
                     now - filters[n].last_access_time < COLD_FILTER_TIMEOUT})]_vars

\* C5: a set or check on a cold name whose file loads leaves the name warm
\* and not cold, and answers normally (Done, or True / False).
C5_ColdPullBack ==
    (request.op \in {"set", "check"} /\ WasCold /\ request.io = "ok") =>
        (/\ request.name \in DOMAIN filters
         /\ request.name \notin cold_filters
         /\ response \in (IF request.op = "set" THEN {Done} ELSE {True, False}))

\* C6: a set, check or info on a cold name whose load fails answers
\* `Error: error recovering cold ...` and leaves the registry unchanged (the
\* name stays cold, so the next request loads again).
C6_ColdLoadFailure ==
    [][\A n \in Names :
          (/\ request'.op \in {"set", "check", "info"}
           /\ request'.name = n
           /\ n \in cold_filters /\ n \notin DOMAIN filters
           /\ request'.io = "fail") =>
          (/\ response'.kind = "Error"
           /\ response'.msg \in
                 {"error recovering cold filter named " \o n \o ": " \o io_error,
                  "error recovering cold scalable filter named " \o n \o ": " \o io_error}
           /\ filters' = filters
           /\ cold_filters' = cold_filters
           /\ disk' = disk)]_vars

\* a load failed for an info, the name is still cold
C6_Witness ==
    /\ request.op = "info" /\ WasCold /\ request.io = "fail"
    /\ response.kind = "Error"
    /\ request.name \in cold_filters

\* C7: info changes neither the registry nor any filter nor the disk; on a
\* cold name it answers from the file, on a warm name from the filter.
C7_InfoReadOnly ==
    [][request'.op = "info" =>
          (/\ filters' = filters
           /\ cold_filters' = cold_filters
           /\ disk' = disk
           /\ (request'.name \in DOMAIN filters =>
                  response' = get_filter_info(filters[request'.name]))
           /\ (request'.tier = "cold" /\ request'.io = "ok" =>
                  response' = get_filter_info(deserialize(disk[request'.name]))))]_vars

\* an info was answered from the file of a cold filter that holds a key
C7_Witness ==
    /\ request.op = "info" /\ WasCold /\ request.io = "ok"
    /\ response.kind = "Info" /\ response.size > 0
    /\ request.name \in cold_filters /\ request.name \notin DOMAIN filters

\* C8: set, check and info answer `no scalable filter named <name>` exactly
\* when the name is in neither filters nor cold_filters, and then change
\* nothing.
C8_UnknownFilter ==
    [][request'.op \in {"set", "check", "info"} =>
          LET unknown == /\ request'.name \notin DOMAIN filters
                         /\ request'.name \notin cold_filters
          IN  /\ (response' = NoSuchFilter(request'.name)) <=> unknown
              /\ unknown => (/\ filters' = filters
                             /\ cold_filters' = cold_filters
                             /\ disk' = disk)]_vars

\* a check of a name that was dropped (its file is still on disk) was
\* answered with the unknown-filter error
C8_Witness ==
    /\ request.op = "check" /\ request.tier = "none"
    /\ response = NoSuchFilter(request.name)
    /\ request.name \in DOMAIN disk
    /\ request.name \notin DOMAIN filters \cup cold_filters

\* C16: every set, check and clear that runs on a filter (a set that finds
\* the key present and a cold pull-back included) leaves its
\* last_access_time at the time of the operation, and a cold sweep keeps
\* every filter accessed less than COLD_FILTER_TIMEOUT ago, untouched.
C16_LastAccess ==
    [][/\ (/\ request'.op \in {"set", "check", "clear"}
            /\ request'.name \in DOMAIN filters') =>
               filters'[request'.name].last_access_time = now
       /\ request'.op = "sweep" =>
               \A n \in DOMAIN filters :
                   now - filters[n].last_access_time < COLD_FILTER_TIMEOUT =>
                       (n \in DOMAIN filters' /\ filters'[n] = filters[n])]_vars

\* a cold sweep has just kept a filter that was created more than
\* COLD_FILTER_TIMEOUT ago and holds a key, because it was accessed since
C16_Witness ==
    /\ request.op = "sweep"
    /\ \E n \in DOMAIN filters :
          /\ now - filters[n].creation_time > COLD_FILTER_TIMEOUT
          /\ now - filters[n].last_access_time < COLD_FILTER_TIMEOUT
          /\ sbf_size(filters[n]) > 0

\* C29: a cold sweep never removes a filter from filters unless the same
\* sweep wrote it to disk and made its name cold: every name warm before
\* the sweep is still warm after it, or is cold with a file equal to its
\* state at the sweep, whatever the idle time and also when a write fails.
C29_SweepLosesNothing ==
    [][request'.op = "sweep" =>
          \A n \in DOMAIN filters :
              \/ n \in DOMAIN filters' /\ filters'[n] = filters[n]
              \/ /\ n \notin DOMAIN filters'
                 /\ n \in cold_filters'
                 /\ n \in DOMAIN disk'
                 /\ disk'[n] = serialize(filters[n])]_vars

\* C31: after a drop answered Done the name is in neither filters nor
\* cold_filters, so that set, check and info on it are answered with the
\* unknown-filter error until the next create and the dropped contents
\* never come back.
C31_DropForgets ==
    (request.op = "drop" /\ response = Done) =>
        (/\ request.name \notin DOMAIN filters
         /\ request.name \notin cold_filters)

----------------------------------------------------------------------------
(* Properties of one ScalableBloomFilter (FilterSpec) *)

\* C9: no false negatives: every key whose set returned Ok (no clear since)
\* is reported true by check, in every later state and for every hash family.
C9_NoFalseNegatives ==
    \A key \in inserted :
        LET r == ScalableBloomFilter_check(sbf, key, now)
        IN  ~r.panic /\ r.result

\* two keys were set, the later one into a stage that already held the
\* other, and a check of one of them was answered
C9_Witness ==
    /\ inserted = Keys
    /\ sbf_size(sbf) >= 1
    /\ request.op = "check" /\ response = True
    /\ sbf.filters[1].hash_count >= 2

\* C10: a set of a key that was already set returns Ok(true) and changes
\* neither the aggregated size, nor the stage count, nor a stage's bitmap.
C10_IdempotentSet ==
    [][(request'.op = "set" /\ request'.key \in inserted) =>
          (/\ response' = [kind |-> "Ok", value |-> TRUE]
           /\ sbf_size(sbf') = sbf_size(sbf)
           /\ filter_count(sbf') = filter_count(sbf)
           /\ \A j \in 1..filter_count(sbf) :
                 sbf'.filters[j].bitmap = sbf.filters[j].bitmap)]_vars

\* "x" is the only key ever set and its set was just answered Ok(true): its
\* bits were set by an earlier set of "x"
C10_Witness ==
    /\ request = [op |-> "set", key |-> "x"]
    /\ response = [kind |-> "Ok", value |-> TRUE]
    /\ inserted = {"x"}
    /\ sbf_size(sbf) = 1

\* C14: after clear every stage has size 0, the stage count is what it was,
\* and check answers false for every key (those set before included).
C14_ClearEmpties ==
    [][request'.op = "clear" =>
          (/\ \A j \in 1..filter_count(sbf') : sbf'.filters[j].size = 0
           /\ filter_count(sbf') = filter_count(sbf)
           /\ \A key \in Keys :
                 LET r == ScalableBloomFilter_check(sbf', key, now)
                 IN  ~r.panic /\ ~r.result)]_vars

\* C15: in every reachable state the bit array of every stage has exactly
\* m entries, m being the stage's stored capacity, so that every h mod m is
\* a valid index.
C15_BitmapLength ==
    \A j \in 1..filter_count(sbf) :
        DOMAIN sbf.filters[j].bitmap = 0..(sbf.filters[j].capacity - 1)

\* the sum of a field over the stages, first stage first
RECURSIVE StageSum(_, _)
StageSum(stages, field) ==
    IF stages = << >> THEN 0 ELSE stages[1][field] + StageSum(Tail(stages), field)

\* the sum of m / 8 over the stages
RECURSIVE StageBytes(_)
StageBytes(stages) ==
    IF stages = << >> THEN 0 ELSE (stages[1].capacity \div 8) + StageBytes(Tail(stages))

\* the largest hash_count of the stages, 0 if there is none
StageMaxHashCount(stages) ==
    IF stages = << >> THEN 0
    ELSE LET ks == {stages[j].hash_count : j \in 1..Len(stages)}
         IN  CHOOSE k \in ks : \A j \in ks : j <= k

\* the accessors that are the stage aggregates whatever the stage count
AggregatesOfStages(f) ==
    /\ sbf_size(f) = StageSum(f.filters, "size")
    /\ sbf_hits(f) = StageSum(f.filters, "hits")
    /\ sbf_miss(f) = StageSum(f.filters, "miss")
    /\ sbf_hash_count(f) = StageMaxHashCount(f.filters)
    /\ filter_count(f) = Cardinality(DOMAIN f.filters)

\* C22: in every reachable state, the state with zero stages right after
\* construction included, the accessors equal the stage aggregates:
\* capacity = sum of the stages' m, byte_space = sum of the stages'
\* byte_space, size, hits and miss the sums, hash_count the maximum,
\* filter_count the number of stages.
C22_Aggregates ==
    /\ sbf_capacity(sbf) = StageSum(sbf.filters, "capacity")
    /\ sbf_byte_space(sbf) = StageBytes(sbf.filters)
    /\ AggregatesOfStages(sbf)

\* C22 (amended): with at least one stage capacity and byte_space are the
\* sums over the stages; with zero stages capacity is initial_capacity and
\* byte_space is initial_capacity / 8; size, hits, miss, hash_count and
\* filter_count are the stage aggregates in every state.
C22_AggregatesOrInitial ==
    /\ sbf_capacity(sbf) = IF filter_count(sbf) = 0 THEN sbf.initial_capacity
                           ELSE StageSum(sbf.filters, "capacity")
    /\ sbf_byte_space(sbf) = IF filter_count(sbf) = 0 THEN sbf.initial_capacity \div 8
                             ELSE StageBytes(sbf.filters)
    /\ AggregatesOfStages(sbf)

\* a filter constructed with initial_capacity 8 has been checked and still
\* has no stage: it reports capacity 8 and byte_space 1
C22_Witness ==
    /\ request.op = "check" /\ response = False
    /\ filter_count(sbf) = 0
    /\ sbf.initial_capacity = 8
    /\ sbf_capacity(sbf) = 8
    /\ sbf_byte_space(sbf) = 1

\* the stage BloomFilter::set runs on when ScalableBloomFilter::set of key
\* goes past its membership check: the last stage, or the stage appended
LastStage(f) ==
    IF NeedsNewStage(f)
    THEN BloomFilter_new(f.initial_capacity * f.scale_factor, TightenFpp(f.fpp)).bf
    ELSE f.filters[Len(f.filters)]

\* the positions BloomFilter::set and ::check probe for key
Probed(bf, key) == {gxhash32(key, i) % bf.capacity : i \in 0..(bf.hash_count - 1)}

\* at least one of the positions probed for key is 0
AnyZero(bf, key) == \E h \in Probed(bf, key) : ~bf.bitmap[h]

\* the step is a set answered Ok on a filter whose bitmaps were not emptied
\* by a clear
SetAnswered ==
    /\ request'.op = "set" /\ response'.kind = "Ok"
    /\ \A j \in 1..filter_count(sbf) :
           DOMAIN sbf.filters[j].bitmap = 0..(sbf.filters[j].capacity - 1)

\* C24: a set on a non-full stage adds exactly 1 to size if at least one of
\* the k probed positions was 0 before the call and leaves size as it was
\* only if all k were 1, so that size counts the sets that flipped a bit.
C24_SizeCountsFlips ==
    [][SetAnswered =>
          LET bf == LastStage(sbf)
          IN  sbf_size(sbf') =
                 sbf_size(sbf) + (IF AnyZero(bf, request'.key) THEN 1 ELSE 0)]_vars

\* C25: a set on a non-full stage returns true exactly when all k probed
\* positions were 1 before the call, and false whenever at least one of
\* them was 0.
C25_SetReturnsPresent ==
    [][SetAnswered =>
          LET bf == LastStage(sbf)
          IN  response'.value = ~AnyZero(bf, request'.key)]_vars

\* the number of 1 bits of a stage
Ones(bf) == Cardinality({h \in DOMAIN bf.bitmap : bf.bitmap[h]})

----------------------------------------------------------------------------
(* Properties of the stages appended to filters read from files (LoadedSpec) *)

\* p0 * r^(i+1)
RECURSIVE FppOfStage(_, _)
FppOfStage(p0, i) == IF i = 0 THEN TightenFpp(p0) ELSE TightenFpp(FppOfStage(p0, i - 1))

C27_NeverFull ==
    [][(/\ request'.op = "set"
        /\ sbf.initial_capacity * sbf.scale_factor > 0
        /\ 0 < sbf.fpp /\ sbf.fpp < 10000) =>
          LET present  == ScalableBloomFilter_check(sbf, request'.key, now).result
              appended == filter_count(sbf') = filter_count(sbf) + 1
              last     == sbf'.filters[filter_count(sbf')]
          IN  /\ response'.kind # "Err"
              /\ appended <=> (~present /\ NeedsNewStage(sbf))
              /\ ~appended => filter_count(sbf') = filter_count(sbf)
              /\ appended => (last.capacity > 0 /\ last.size <= 1
                                /\ last.size < last.capacity)]_vars

\* a set was answered Ok by the stage appended to a filter whose first
\* stage is full
C27_Witness ==
    /\ request.op = "set" /\ response.kind = "Ok"
    /\ filter_count(sbf) = 2
    /\ sbf.filters[1].size = sbf.filters[1].capacity
    /\ sbf.filters[2].size = 1

----------------------------------------------------------------------------
(* Properties of the accept loop (AcceptSpec) *)

\* the wait that follows the waits already made in a call of accept
NextWait(waited) == IF waited = << >> THEN 1 ELSE 2 * waited[Len(waited)]

----------------------------------------------------------------------------
(* Properties of the sizing (SizingSpec) *)

\* the stage built from (n, p) has bitmap length m and hash count k
Sized(n, p, m, k) ==
    (request.op = "add_filter" /\ request.capacity = n /\ request.fpp = p) =>
        (sbf.filters[1].capacity = m /\ sbf.filters[1].hash_count = k)

\* C23: a primitive filter built from (n, p) has m = ceil(-n ln p / (ln 2)^2)
\* and k = ceil((m / n) ln 2), stores m as its capacity and has byte_space
\* m / 8 by integer division; (5, 0.01) gives m = 48, k = 7; (1500, 0.001)
\* gives m = 21567, k = 10; (400, 0.05) gives m = 2495, k = 5; (192, 0.05)
\* gives byte_space = 149.
C23_Sizing ==
    request.op = "add_filter" =>
        LET bf == sbf.filters[1]
            n  == request.capacity
            l  == -ln(request.fpp)
            m  == bf.capacity
            k  == bf.hash_count
        IN  /\ Len(sbf.filters) = 1
            /\ DOMAIN bf.bitmap = 0..(m - 1)
            /\ byte_space(bf) = m \div 8
            /\ n <= MaxSizing =>
                  (/\ (m - 1) * LN_2_SQUARED < n * l /\ n * l <= m * LN_2_SQUARED
                   /\ (k - 1) * n * 1000000 < m * LN_2 /\ m * LN_2 <= k * n * 1000000)
            /\ Sized(5, 100, 48, 7)
            /\ Sized(1500, 10, 21567, 10)
            /\ Sized(400, 500, 2495, 5)
            /\ (n = 192 /\ request.fpp = 500) => byte_space(bf) = 149

\* the filter of the unit test with the largest item count was built
C23_Witness ==
    /\ request.op = "add_filter"
    /\ request.capacity = 1500 /\ request.fpp = 10
    /\ sbf.filters[1].capacity = 21567
    /\ byte_space(sbf.filters[1]) = 2695

----------------------------------------------------------------------------
(* Properties of the growth scenario (GrowthSpec) *)

\* C11: the (5, 0.01, small) filter has exactly 1 stage after up to 5
\* insertions of items not already present, 2 stages from the 6th on, and
\* after 10 of them filter_count = 2 and the aggregated size is 10.
C11_Growth ==
    LET n == Cardinality(inserted)
    IN  /\ (1 <= n /\ n <= 5) => filter_count(sbf) = 1
        /\ n >= 6 => filter_count(sbf) = 2
        /\ n = 10 => (filter_count(sbf) = 2 /\ sbf_size(sbf) = 10)

----------------------------------------------------------------------------
(* Properties of the server as its tasks run it (TaskSpec) *)

\* C12: under concurrent clients that create, set and check, no response is
\* an Error other than the unknown-filter error, and the aggregated size of
\* each filter equals the number of distinct keys that were set on it.
C12_ConcurrentClients ==
    /\ (request.op \in {"create", "set", "check"} /\ response.kind = "Error") =>
           response = NoSuchFilter(request.name)
    /\ \A n \in DOMAIN filters :
           sbf_size(filters[n]) = Cardinality({p \in inserted : p[1] = n})

\* C13: every handler and every worker pass reads and writes filters,
\* cold_filters and the files inside one critical section of the registry
\* mutex: no two tasks are inside a section at once, and a step that
\* touches the registry or the disk is taken while no other task is inside
\* one, so requests and worker passes are atomic with respect to each other.
C13_RegistryMutex ==
    [][/\ Cardinality({t \in Tasks : InSection(t)'}) <= 1
       /\ (request'.op \notin {"tick", "parse"}) =>
              \A t \in Tasks \ {request'.task} : ~InSection(t) /\ ~InSection(t)'
       /\ (<<filters, cold_filters, disk>>' # <<filters, cold_filters, disk>>) =>
              request'.op \notin {"tick", "parse"}]_vars

\* the cold sweep is inside its section, writing, the registry holds a
\* filter with a key, and a client has just been answered a parse error:
\* other tasks run meanwhile, but not on the registry
C13_Witness ==
    /\ mutex
    /\ task["dump_cold_filters"].pc = "write"
    /\ request.op = "parse"
    /\ \E n \in DOMAIN filters : sbf_size(filters[n]) > 0

\* the commands of the protocol
Commands == {"create", "set", "check", "info", "drop", "clear", "persist", "list"}

\* the line names no command, lacks an argument or carries a number that is
\* none
FailsToParse(line) ==
    \/ line[1] \notin Commands
    \/ line[1] \in {"set", "check"} /\ Len(line) < 3
    \/ line[1] \in {"create", "info", "drop", "clear", "persist"} /\ Len(line) < 2
    \/ line[1] = "create" /\ Len(line) >= 3 /\ line[3] \notin DOMAIN usize_literals
    \/ line[1] = "create" /\ Len(line) >= 4 /\ line[4] \notin DOMAIN f64_literals

\* C17: a line that fails to parse is answered with an Error response,
\* leaves filters, cold_filters and the disk unchanged, and the connection
\* task goes on to await its next line.
C17_ParseError ==
    [][("line" \in DOMAIN request' /\ FailsToParse(request'.line)) =>
          (/\ response'.kind = "Error"
           /\ filters' = filters
           /\ cold_filters' = cold_filters
           /\ disk' = disk
           /\ task'[request'.task].pc = "next")]_vars

\* a set without its key was answered `missing key` while the registry
\* holds a filter with a key; the connection awaits its next line
C17_Witness ==
    /\ request.op = "parse"
    /\ request.line = <<"set", "a">>
    /\ response = Error("missing key")
    /\ task[request.task].pc = "next"
    /\ \E n \in DOMAIN filters : sbf_size(filters[n]) > 0

\* C18: the line `create bad foo 0.01` is answered with exactly the line
\* `Error: parser error: capacity must be an i64 value`.
C18_CapacityMessage ==
    ("line" \in DOMAIN request /\ request.line = <<"create", "bad", "foo", "0.01">>) =>
        Response_serialize(response) =
            "Error: parser error: capacity must be an i64 value"

\* C19: every line received on a connection, well-formed or not and
\* whatever was created before, gets exactly one response, after which the
\* connection task awaits the next line: no request ends the task.
C19_ConnectionServes ==
    /\ \A c \in Clients : task[c].pc \in {"next", "io"}
    /\ ("line" \in DOMAIN request /\ request.op # "lock") =>
           (/\ response.kind \in {"Done", "True", "False", "Info", "List", "Error"}
            /\ task[request.task].pc = "next")

\* C20: a set on a filter created with n0 * s = 0 is answered with the
\* `set ... failed` error of the stage that is born full, and the connection
\* goes on.
C20_ZeroCapacitySet ==
    (/\ request.op = "set"
     /\ request.name \in DOMAIN filters
     /\ filters[request.name].initial_capacity * filters[request.name].scale_factor = 0) =>
        (/\ response = Error("set \"" \o request.key \o "\" into \"" \o request.name
                              \o "\" filter failed: " \o full_error)
         /\ task[request.task].pc = "next")

----------------------------------------------------------------------------
(* Properties of the server while its disk works (TierSpec) *)

\* C30: membership survives tiering: once a set of (name, key) was answered
\* Done, and with no drop or clear of the name since, every check of
\* (name, key) is answered True, whatever requests, dumps and sweeps come
\* in between, all reads and writes succeeding.
C30_MembershipSurvives ==
    (request.op = "check" /\ <<request.name, request.key>> \in inserted) =>
        response = True

----------------------------------------------------------------------------
(* Properties of the full dump (DumpSpec) *)

\* the pass of dump_to_disk ends with the step taken
DumpPassEnds == task["dump_to_disk"].pc = "write" /\ task'["dump_to_disk"].pc = "sleep"

\* C21: a full dump runs under the registry lock and writes the current
\* state of every warm filter to its file; a write error on one filter
\* prevents neither the writes of the remaining filters of the pass nor any
\* later pass, and the dump changes neither filters nor cold_filters nor
\* any filter's content.
C21_FullDump ==
    [][request'.op = "dump" =>
          (/\ mutex
           /\ \A c \in Clients : ~InSection(c)
           /\ filters' = filters
           /\ cold_filters' = cold_filters
           /\ request'.ok => (/\ request'.name \in DOMAIN disk'
                              /\ disk'[request'.name] = serialize(filters[request'.name]))
           /\ task'["dump_to_disk"].pc \in {"write", "sleep"}
           /\ task'["dump_to_disk"].pc = "write" =>
                  task'["dump_to_disk"].todo = task["dump_to_disk"].todo \ {request'.name}
           /\ DumpPassEnds =>
                  \A n \in DOMAIN filters \ request'.failed :
                      n \in DOMAIN disk' /\ disk'[n] = serialize(filters[n]))]_vars

\* a pass has just written a filter that holds a key after the write of
\* another filter failed in the same pass
C21_Witness ==
    /\ request.op = "dump" /\ request.ok
    /\ request.failed # {}
    /\ request.name \in DOMAIN filters
    /\ sbf_size(filters[request.name]) > 0
    /\ disk[request.name] = serialize(filters[request.name])

====
